---- MODULE Spec2Model ----
(***************************************************************************)
(* GRDB.swift C shims: the non-variadic wrappers around sqlite3_config,    *)
(* sqlite3_db_config and the snapshot API in each of the repository's      *)
(* header variants, and the getThreadsCount test utility.                  *)
(*                                                                         *)
(* A shim function is modelled by its body: the sequence of library calls  *)
(* it makes and what it returns.  A thread executes a body one library     *)
(* call at a time (the shim holds no lock across calls).  The SQLite       *)
(* library and the Mach kernel are the environment: their state is the     *)
(* log-callback slot, the per-connection DQS flags, the live snapshots and *)
(* the live thread count.                                                  *)
(***************************************************************************)
EXTENDS Integers, Sequences, FiniteSets, TLC

(* ------------------------------------------------------------------ *)
(* Constants of <sqlite3.h> and <mach/mach.h>, and the version gate.    *)
(* ------------------------------------------------------------------ *)
SQLITE_OK == 0
SQLITE_ERROR == 1
SQLITE_NOMEM == 7
SQLITE_MISUSE == 21
DQS_MIN_VERSION == 3029000
KERN_SUCCESS == 0
KERN_INVALID_ARGUMENT == 4
KERN_FAILURE == 5
KERN_RESOURCE_SHORTAGE == 6
INT_MAX == 2147483647

(* ------------------------------------------------------------------ *)
(* Bounds of the model.                                                 *)
(* ------------------------------------------------------------------ *)
MaxErrors == 2
MaxGen == 1
MaxSnapshots == 2
MaxThreadCount == 3
MaxLists == 2
MaxInvocations == 3

(* ------------------------------------------------------------------ *)
(* Build configurations: which header is compiled, whether              *)
(* SQLITE_ENABLE_SNAPSHOT is defined, and SQLITE_VERSION_NUMBER.        *)
(* ------------------------------------------------------------------ *)
H_Support == "Support/grdb_config.h"
H_SupportCipher == "Support/SQLCipher_config.h"
H_Custom == "SQLiteCustom/grdb_config.h"
H_CSQLite == "Sources/CSQLite/shim.h"
H_sqlite3 == "Sources/sqlite3/shim.h"
H_SPMCipher == "Sources/SQLCipher/include/SQLCipher_config.h"

Headers == {H_Support, H_SupportCipher, H_Custom, H_CSQLite, H_sqlite3, H_SPMCipher}
Versions == {DQS_MIN_VERSION - 1000, DQS_MIN_VERSION, DQS_MIN_VERSION + 1000}
Builds == [header : Headers, snapshot : BOOLEAN, version : Versions]

Conns == {"c1", "c2"}
Threads == {"t1", "t2"}
NULL == "NULL"
Callbacks == {NULL, "cb1", "cb2"}
Schemas == {"main", "nosuch"}
NullSnapshot == 0
SnapIds == 1..MaxSnapshots
ErrCodes == {SQLITE_ERROR, SQLITE_NOMEM}
DqsOpts == {"SQLITE_DBCONFIG_DQS_DDL", "SQLITE_DBCONFIG_DQS_DML"}

Void == [void |-> TRUE, val |-> 0]
Value(v) == [void |-> FALSE, val |-> v]

VARIABLES build, open, isInit, xLog, pLogArg, dqs, gen, snaps, th, overlapped,
          nErr, nInv, lastInv, kThreads, kLists, gt

shimVars == <<build, open, isInit, xLog, pLogArg, dqs, gen, snaps, th, overlapped, nErr, nInv, lastInv>>
machVars == <<kThreads, kLists, gt>>
vars == <<build, open, isInit, xLog, pLogArg, dqs, gen, snaps, th, overlapped,
          nErr, nInv, lastInv, kThreads, kLists, gt>>

(* ------------------------------------------------------------------ *)
(* The wrapped library (environment).  Each function takes the library  *)
(* state L (the log slot xLog / pLogArg, the DQS flags, the snapshots,  *)
(* and the record of the callback invocations made) and returns the new *)
(* state, the int it returns (res) and what it stores in the output     *)
(* slot.  Where the status of a call is the library's to decide, it is  *)
(* the parameter e.                                                     *)
(* ------------------------------------------------------------------ *)
Sign(n) == IF n < 0 THEN -1 ELSE IF n > 0 THEN 1 ELSE 0

LiveIds(S) == {s.id : s \in S}
SnapOf(S, p) == CHOOSE s \in S : s.id = p
FreeId(S) == CHOOSE i \in SnapIds \ LiveIds(S) : \A j \in SnapIds \ LiveIds(S) : i <= j

\* sqlite3_log(code, ...): calls xLog(pLogArg, code, msg) when a callback is
\* installed.
sqlite3_log(L, code) ==
    IF L.xLog # NULL
    THEN [L EXCEPT !.nInv = @ + 1,
                   !.lastInv = [cb |-> L.xLog, pArg |-> L.pLogArg, code |-> code]]
    ELSE L

\* sqlite3_config(SQLITE_CONFIG_LOG, xLog, pLogArg): e is the status the
\* library reaches.  A call it takes sets the process-wide slot; a call it
\* refuses leaves the slot as it was and is itself logged, to the callback
\* already installed.
sqlite3_config(L, c, e) ==
    IF e = SQLITE_OK
    THEN [lib |-> [L EXCEPT !.xLog = c.cb, !.pLogArg = c.arg], res |-> SQLITE_OK, out |-> NullSnapshot]
    ELSE [lib |-> sqlite3_log(L, e), res |-> e, out |-> NullSnapshot]

\* sqlite3_db_config(db, SQLITE_DBCONFIG_DQS_xxx, onoff, 0): sets one flag of one connection.
sqlite3_db_config(L, c) ==
    [lib |-> [L EXCEPT !.dqs[c.db][c.opt] = c.val], res |-> SQLITE_OK, out |-> NullSnapshot]

\* sqlite3_snapshot_get(db, zSchema, ppSnapshot): e is the status the library
\* reaches for an attached schema (no WAL read transaction: SQLITE_ERROR).
sqlite3_snapshot_get(L, c, e) ==
    IF c.schema # "main" THEN [lib |-> L, res |-> SQLITE_ERROR, out |-> NullSnapshot]
    ELSE IF e # SQLITE_OK THEN [lib |-> L, res |-> e, out |-> NullSnapshot]
    ELSE [lib |-> [L EXCEPT !.snaps = @ \cup {[id |-> FreeId(L.snaps), db |-> c.db, gen |-> L.gen[c.db]]}],
          res |-> SQLITE_OK, out |-> FreeId(L.snaps)]

\* sqlite3_snapshot_free(p): releases the handle; a null handle is a no-op.
sqlite3_snapshot_free(L, c) ==
    [lib |-> [L EXCEPT !.snaps = {s \in @ : s.id # c.p1}], res |-> 0, out |-> NullSnapshot]

\* sqlite3_snapshot_cmp(p1, p2): negative, zero or positive by recency.
sqlite3_snapshot_cmp(L, c) ==
    [lib |-> L, res |-> Sign(SnapOf(L.snaps, c.p1).gen - SnapOf(L.snaps, c.p2).gen), out |-> NullSnapshot]

LibCall(L, c, e) ==
    CASE c.fn = "sqlite3_config" -> sqlite3_config(L, c, e)
      [] c.fn = "sqlite3_db_config" -> sqlite3_db_config(L, c)
      [] c.fn = "sqlite3_snapshot_get" -> sqlite3_snapshot_get(L, c, e)
      [] c.fn = "sqlite3_snapshot_free" -> sqlite3_snapshot_free(L, c)
      [] c.fn = "sqlite3_snapshot_cmp" -> sqlite3_snapshot_cmp(L, c)

(* ------------------------------------------------------------------ *)
(* The shim functions: the library calls each makes, in order, and what *)
(* it returns ("void", the constant k, or the "result" of its call).    *)
(* ------------------------------------------------------------------ *)
Returns(calls, ret, k) == [calls |-> calls, ret |-> ret, k |-> k]

DbConfig(db, opt, onoff) ==
    [fn |-> "sqlite3_db_config", db |-> db, opt |-> opt, val |-> onoff]

\* Mutant: the callback and the context argument are exchanged.
registerErrorLogCallback_swapped(callback) ==
    Returns(<< [fn |-> "sqlite3_config", opt |-> "SQLITE_CONFIG_LOG", cb |-> NULL, arg |-> callback] >>,
            "void", 0)

\* Mutant: the callback is also passed as its own context.
registerErrorLogCallback_ctx(callback) ==
    Returns(<< [fn |-> "sqlite3_config", opt |-> "SQLITE_CONFIG_LOG", cb |-> callback, arg |-> callback] >>,
            "void", 0)

registerErrorLogCallback(callback) ==
    Returns(<< [fn |-> "sqlite3_config", opt |-> "SQLITE_CONFIG_LOG", cb |-> callback, arg |-> NULL] >>,
            "void", 0)

\* Mutant: the version gate is off by one release.
HasDqsConfig_early(version) == version >= DQS_MIN_VERSION - 1000

\* #if SQLITE_VERSION_NUMBER >= 3029000
HasDqsConfig(version) == version >= DQS_MIN_VERSION

\* Mutant: the DML flag is left alone.
disableDoubleQuotedStringLiterals_ddlOnly(version, db) ==
    IF HasDqsConfig(version)
    THEN Returns(<< DbConfig(db, "SQLITE_DBCONFIG_DQS_DDL", 0) >>, "void", 0)
    ELSE Returns(<< >>, "void", 0)

disableDoubleQuotedStringLiterals(version, db) ==
    IF HasDqsConfig(version)
    THEN Returns(<< DbConfig(db, "SQLITE_DBCONFIG_DQS_DDL", 0),
                    DbConfig(db, "SQLITE_DBCONFIG_DQS_DML", 0) >>, "void", 0)
    ELSE Returns(<< >>, "void", 0)

\* Mutant: the DML call passes 0, as in disableDoubleQuotedStringLiterals.
enableDoubleQuotedStringLiterals_dmlOff(version, db) ==
    IF HasDqsConfig(version)
    THEN Returns(<< DbConfig(db, "SQLITE_DBCONFIG_DQS_DDL", 1),
                    DbConfig(db, "SQLITE_DBCONFIG_DQS_DML", 0) >>, "void", 0)
    ELSE Returns(<< >>, "void", 0)

enableDoubleQuotedStringLiterals(version, db) ==
    IF HasDqsConfig(version)
    THEN Returns(<< DbConfig(db, "SQLITE_DBCONFIG_DQS_DDL", 1),
                    DbConfig(db, "SQLITE_DBCONFIG_DQS_DML", 1) >>, "void", 0)
    ELSE Returns(<< >>, "void", 0)

\* The forwarding bodies, and the stubs' bodies, of the snapshot functions.
\* Mutant: the library's status is dropped and success is returned.
SnapshotGetForward_swallow(db, schema) ==
    Returns(<< [fn |-> "sqlite3_snapshot_get", db |-> db, schema |-> schema] >>, "const", SQLITE_OK)

SnapshotGetForward(db, schema) ==
    Returns(<< [fn |-> "sqlite3_snapshot_get", db |-> db, schema |-> schema] >>, "result", 0)
SnapshotFreeForward(p) ==
    Returns(<< [fn |-> "sqlite3_snapshot_free", p1 |-> p] >>, "void", 0)
SnapshotCmpForward(p1, p2) ==
    Returns(<< [fn |-> "sqlite3_snapshot_cmp", p1 |-> p1, p2 |-> p2] >>, "result", 0)

\* Support/grdb_config.h: grdb_snapshot_xxx forward to the library in both
\* branches of #ifdef SQLITE_ENABLE_SNAPSHOT ("Assume snapshot apis *are*
\* defined, but not exposed").
Support_grdb_snapshot_get(enabled, db, schema) ==
    IF enabled THEN SnapshotGetForward(db, schema) ELSE SnapshotGetForward(db, schema)

Support_grdb_snapshot_free(enabled, p) ==
    IF enabled THEN SnapshotFreeForward(p) ELSE SnapshotFreeForward(p)

Support_grdb_snapshot_cmp(enabled, p1, p2) ==
    IF enabled THEN SnapshotCmpForward(p1, p2) ELSE SnapshotCmpForward(p1, p2)

\* Support/SQLCipher_config.h: forward under SQLITE_ENABLE_SNAPSHOT, stub otherwise.
\* Mutant: the stub reports success.
SQLCipher_grdb_snapshot_get_ok(enabled, db, schema) ==
    IF enabled THEN SnapshotGetForward(db, schema) ELSE Returns(<< >>, "const", SQLITE_OK)

SQLCipher_grdb_snapshot_get(enabled, db, schema) ==
    IF enabled THEN SnapshotGetForward(db, schema) ELSE Returns(<< >>, "const", SQLITE_MISUSE)

SQLCipher_grdb_snapshot_free(enabled, p) ==
    IF enabled THEN SnapshotFreeForward(p) ELSE Returns(<< >>, "void", 0)

SQLCipher_grdb_snapshot_cmp(enabled, p1, p2) ==
    IF enabled THEN SnapshotCmpForward(p1, p2) ELSE Returns(<< >>, "const", 0)

\* SQLiteCustom/grdb_config.h: without SQLITE_ENABLE_SNAPSHOT the header itself
\* defines sqlite3_snapshot_xxx as stubs; with it, the names are the library's.
Custom_sqlite3_snapshot_get(enabled, db, schema) ==
    IF enabled THEN SnapshotGetForward(db, schema) ELSE Returns(<< >>, "const", SQLITE_MISUSE)

Custom_sqlite3_snapshot_free(enabled, p) ==
    IF enabled THEN SnapshotFreeForward(p) ELSE Returns(<< >>, "void", 0)

\* Mutant: the stub reports "older".
Custom_sqlite3_snapshot_cmp_neg(enabled, p1, p2) ==
    IF enabled THEN SnapshotCmpForward(p1, p2) ELSE Returns(<< >>, "const", -1)

Custom_sqlite3_snapshot_cmp(enabled, p1, p2) ==
    IF enabled THEN SnapshotCmpForward(p1, p2) ELSE Returns(<< >>, "const", 0)

\* The build's snapshot functions.
snapshotGet(b, db, schema) ==
    CASE b.header = H_Support -> Support_grdb_snapshot_get(b.snapshot, db, schema)
      [] b.header = H_SupportCipher -> SQLCipher_grdb_snapshot_get(b.snapshot, db, schema)
      [] b.header = H_Custom -> Custom_sqlite3_snapshot_get(b.snapshot, db, schema)

snapshotFree(b, p) ==
    CASE b.header = H_Support -> Support_grdb_snapshot_free(b.snapshot, p)
      [] b.header = H_SupportCipher -> SQLCipher_grdb_snapshot_free(b.snapshot, p)
      [] b.header = H_Custom -> Custom_sqlite3_snapshot_free(b.snapshot, p)

snapshotCmp(b, p1, p2) ==
    CASE b.header = H_Support -> Support_grdb_snapshot_cmp(b.snapshot, p1, p2)
      [] b.header = H_SupportCipher -> SQLCipher_grdb_snapshot_cmp(b.snapshot, p1, p2)
      [] b.header = H_Custom -> Custom_sqlite3_snapshot_cmp(b.snapshot, p1, p2)

\* Which headers define which functions.
DeclaresDqs(header) == header # H_sqlite3
DeclaresSnapshot(header) == header \in {H_Support, H_SupportCipher, H_Custom}

(* ------------------------------------------------------------------ *)
(* Threads calling the shim.  th[t] is thread t's current or most       *)
(* recent call: its function and arguments, the library calls still to  *)
(* make (rest), those made with their results (calls), what the call    *)
(* returned (ret) and what was stored in its output slot (out).         *)
(* ------------------------------------------------------------------ *)
NoArgs == [db |-> "-", cb |-> "-", schema |-> "-", p1 |-> 0, p2 |-> 0]

IdleThread ==
    [st |-> "idle", fn |-> "-", args |-> NoArgs, rest |-> << >>, retKind |-> "void", k |-> 0,
     calls |-> << >>, ret |-> Void, out |-> NullSnapshot]

Lib ==
    [xLog |-> xLog, pLogArg |-> pLogArg,
     dqs |-> dqs, gen |-> gen, snaps |-> snaps, nInv |-> nInv, lastInv |-> lastInv]

RetOf(retKind, k, calls) ==
    CASE retKind = "void" -> Void
      [] retKind = "const" -> Value(k)
      [] retKind = "result" -> Value(calls[Len(calls)].res)

\* One library call c made by thread t, whose frame before the call is f.
\* (The count of callback invocations is capped at MaxInvocations.)
LibStep(t, f, c, e) ==
    LET r == LibCall(Lib, c, e)
        made == Append(f.calls, [fn |-> c.fn, res |-> r.res])
        rest == Tail(f.rest)
    IN  /\ r.lib.nInv <= MaxInvocations
        /\ nInv' = r.lib.nInv
        /\ lastInv' = r.lib.lastInv
        /\ xLog' = r.lib.xLog
        /\ pLogArg' = r.lib.pLogArg
        /\ dqs' = r.lib.dqs
        /\ snaps' = r.lib.snaps
        /\ th' = [th EXCEPT ![t] =
                    [f EXCEPT !.st = IF Len(rest) = 0 THEN "returned" ELSE "running",
                              !.rest = rest,
                              !.calls = made,
                              !.ret = IF Len(rest) = 0 THEN RetOf(f.retKind, f.k, made) ELSE Void,
                              !.out = r.out]]

\* Thread t calls shim function fn: the call's first library call happens
\* here; a body that makes no library call returns at once.
Invoke(t, fn, args, body, e) ==
    LET f == [st |-> "running", fn |-> fn, args |-> args, rest |-> body.calls,
              retKind |-> body.ret, k |-> body.k, calls |-> << >>, ret |-> Void,
              out |-> NullSnapshot]
    IN  /\ th[t].st # "running"
        /\ IF Len(body.calls) = 0
           THEN /\ th' = [th EXCEPT ![t] = [f EXCEPT !.st = "returned",
                                                     !.ret = RetOf(body.ret, body.k, << >>)]]
                /\ UNCHANGED <<xLog, pLogArg, dqs, snaps, nInv, lastInv>>
           ELSE LibStep(t, f, Head(body.calls), e)

InProgress(db) == {u \in DOMAIN th : th[u].st = "running" /\ th[u].args.db = db}

\* overlapped[db] records, for the claims about interleaved calls, whether the
\* calls made on db since it was last found idle by a call ran side by side:
\* a call that starts while none is in progress clears it, a call that starts
\* while another is in progress sets it.

\* e is the status sqlite3_config reaches: a library refuses the call only
\* once it has been initialized.
Register(t, cb, e) ==
    /\ e # SQLITE_OK => isInit
    /\ Invoke(t, "registerErrorLogCallback", [NoArgs EXCEPT !.cb = cb],
              registerErrorLogCallback(cb), e)
    /\ UNCHANGED <<build, open, isInit, gen, overlapped, nErr>>
    /\ UNCHANGED machVars

Enable(t, db) ==
    /\ DeclaresDqs(build.header)
    /\ db \in open
    /\ Invoke(t, "enableDoubleQuotedStringLiterals", [NoArgs EXCEPT !.db = db],
              enableDoubleQuotedStringLiterals(build.version, db), SQLITE_OK)
    /\ overlapped' = [overlapped EXCEPT ![db] = InProgress(db) # {}]
    /\ UNCHANGED <<build, open, isInit, gen, nErr>>
    /\ UNCHANGED machVars

Disable(t, db) ==
    /\ DeclaresDqs(build.header)
    /\ db \in open
    /\ Invoke(t, "disableDoubleQuotedStringLiterals", [NoArgs EXCEPT !.db = db],
              disableDoubleQuotedStringLiterals(build.version, db), SQLITE_OK)
    /\ overlapped' = [overlapped EXCEPT ![db] = InProgress(db) # {}]
    /\ UNCHANGED <<build, open, isInit, gen, nErr>>
    /\ UNCHANGED machVars

\* The next library call of a call in progress.
Continue(t) ==
    /\ th[t].st = "running"
    /\ LibStep(t, th[t], Head(th[t].rest), SQLITE_OK)
    /\ UNCHANGED <<build, open, isInit, gen, overlapped, nErr>>
    /\ UNCHANGED machVars

\* (The number of live snapshots is capped at MaxSnapshots: a call that would
\* take one more is not made.)
SnapshotGet(t, db, schema, e) ==
    /\ DeclaresSnapshot(build.header)
    /\ db \in open
    /\ (Len(snapshotGet(build, db, schema).calls) > 0 /\ schema = "main" /\ e = SQLITE_OK) =>
          LiveIds(snaps) # SnapIds
    /\ Invoke(t, "snapshotGet", [NoArgs EXCEPT !.db = db, !.schema = schema],
              snapshotGet(build, db, schema), e)
    /\ UNCHANGED <<build, open, isInit, gen, overlapped, nErr>>
    /\ UNCHANGED machVars

\* A handle passed on to the library is null or live; a stub takes any value.
SnapshotFree(t, p) ==
    /\ DeclaresSnapshot(build.header)
    /\ Len(snapshotFree(build, p).calls) > 0 => p \in LiveIds(snaps) \cup {NullSnapshot}
    /\ Invoke(t, "snapshotFree", [NoArgs EXCEPT !.p1 = p], snapshotFree(build, p), SQLITE_OK)
    /\ UNCHANGED <<build, open, isInit, gen, overlapped, nErr>>
    /\ UNCHANGED machVars

\* Handles passed on to the library are live snapshots of one connection.
SnapshotCmp(t, p1, p2) ==
    /\ DeclaresSnapshot(build.header)
    /\ Len(snapshotCmp(build, p1, p2).calls) > 0 =>
          /\ {p1, p2} \subseteq LiveIds(snaps)
          /\ SnapOf(snaps, p1).db = SnapOf(snaps, p2).db
    /\ Invoke(t, "snapshotCmp", [NoArgs EXCEPT !.p1 = p1, !.p2 = p2],
              snapshotCmp(build, p1, p2), SQLITE_OK)
    /\ UNCHANGED <<build, open, isInit, gen, overlapped, nErr>>
    /\ UNCHANGED machVars

(* Environment: opening a connection initializes the library; a         *)
(* committed write moves a connection's database on; an error           *)
(* occurrence is reported through sqlite3_log, either from inside a     *)
(* library call, which has initialized the library (inits), or by a     *)
(* direct call of sqlite3_log, which does not.                          *)
OpenConnection(db) ==
    /\ db \notin open
    /\ open' = open \cup {db}
    /\ isInit' = TRUE
    /\ UNCHANGED <<build, xLog, pLogArg, dqs, gen, snaps, th, overlapped, nErr, nInv, lastInv>>
    /\ UNCHANGED machVars

DbWrite(db) ==
    /\ db \in open
    /\ gen[db] < MaxGen
    /\ gen' = [gen EXCEPT ![db] = @ + 1]
    /\ UNCHANGED <<build, open, isInit, xLog, pLogArg, dqs, snaps, th, overlapped, nErr, nInv, lastInv>>
    /\ UNCHANGED machVars

LibError(code, inits) ==
    LET L == sqlite3_log(Lib, code)
    IN  /\ nErr < MaxErrors
        /\ L.nInv <= MaxInvocations
        /\ isInit' = (isInit \/ inits)
        /\ nErr' = nErr + 1
        /\ nInv' = L.nInv
        /\ lastInv' = L.lastInv
        /\ UNCHANGED <<build, open, xLog, pLogArg, dqs, gen, snaps, th, overlapped>>
        /\ UNCHANGED machVars

(* ------------------------------------------------------------------ *)
(* Initial states.  The DQS flags of a new connection are those of the  *)
(* library's compile-time default (SQLITE_DQS = 0..3).                  *)
(* ------------------------------------------------------------------ *)
DqsDefaults ==
    {[c \in Conns |-> [o \in DqsOpts |-> IF o = "SQLITE_DBCONFIG_DQS_DDL" THEN ddl ELSE dml]] :
        ddl \in {0, 1}, dml \in {0, 1}}

GtIdle ==
    [pc |-> "idle", kernReturn |-> KERN_SUCCESS, task |-> FALSE, threadList |-> 0,
     threadCount |-> 0, calls |-> << >>, ret |-> 0]

InitShim(threads, conns) ==
    /\ build \in Builds
    /\ open = conns
    /\ isInit = (conns # {})
    /\ xLog = NULL
    /\ pLogArg = NULL
    /\ dqs \in DqsDefaults
    /\ gen = [c \in Conns |-> 0]
    /\ snaps = {}
    /\ th = [t \in threads |-> IdleThread]
    /\ overlapped = [c \in Conns |-> FALSE]
    /\ nErr = 0
    /\ nInv = 0
    /\ lastInv = [cb |-> NULL, pArg |-> NULL, code |-> 0]
    /\ kThreads = 1
    /\ kLists = {}
    /\ gt = GtIdle

\* Every shim function, called by one thread on one open connection: calls
\* follow one another.
Init == InitShim({"t1"}, {"c1"})

Next ==
    \/ \E t \in DOMAIN th, cb \in Callbacks, e \in {SQLITE_OK, SQLITE_MISUSE} : Register(t, cb, e)
    \/ \E t \in DOMAIN th, db \in Conns : Enable(t, db)
    \/ \E t \in DOMAIN th, db \in Conns : Disable(t, db)
    \/ \E t \in DOMAIN th : Continue(t)
    \/ \E t \in DOMAIN th, db \in Conns, schema \in Schemas, e \in {SQLITE_OK, SQLITE_ERROR} :
          SnapshotGet(t, db, schema, e)
    \/ \E t \in DOMAIN th, p \in {NullSnapshot} \cup SnapIds : SnapshotFree(t, p)
    \/ \E t \in DOMAIN th, p1 \in {NullSnapshot} \cup SnapIds, p2 \in {NullSnapshot} \cup SnapIds :
          SnapshotCmp(t, p1, p2)

Spec == Init /\ [][Next]_vars

\* The snapshot functions, called by one thread on one open connection whose
\* database changes between calls.
InitSnap == InitShim({"t1"}, {"c1"})

NextSnap ==
    \/ \E t \in DOMAIN th, db \in Conns, schema \in Schemas, e \in {SQLITE_OK, SQLITE_ERROR} :
          SnapshotGet(t, db, schema, e)
    \/ \E t \in DOMAIN th, p \in {NullSnapshot} \cup SnapIds : SnapshotFree(t, p)
    \/ \E t \in DOMAIN th, p1 \in {NullSnapshot} \cup SnapIds, p2 \in {NullSnapshot} \cup SnapIds :
          SnapshotCmp(t, p1, p2)
    \/ \E db \in Conns : DbWrite(db)

SpecSnap == InitSnap /\ [][NextSnap]_vars

\* The error log, from process start (no connection opened yet, the library
\* not initialized): registrations by one thread, connections opened, and
\* library-internal errors.
InitLog == InitShim({"t1"}, {})

NextLog ==
    \/ \E t \in DOMAIN th, cb \in Callbacks, e \in {SQLITE_OK, SQLITE_MISUSE} : Register(t, cb, e)
    \/ \E db \in Conns : OpenConnection(db)
    \/ \E code \in ErrCodes, inits \in BOOLEAN : LibError(code, inits)

SpecLog == InitLog /\ [][NextLog]_vars

\* The DQS toggles, called by one thread on two open connections.
InitDqs == InitShim({"t1"}, Conns)

NextDqs ==
    \/ \E t \in DOMAIN th, db \in Conns : Enable(t, db)
    \/ \E t \in DOMAIN th, db \in Conns : Disable(t, db)
    \/ \E t \in DOMAIN th : Continue(t)

SpecDqs == InitDqs /\ [][NextDqs]_vars

\* The DQS toggles, called by two threads on one open connection: calls
\* interleave at library calls.
InitConc == InitShim(Threads, {"c1"})

NextConc ==
    \/ \E t \in DOMAIN th, db \in Conns : Enable(t, db)
    \/ \E t \in DOMAIN th, db \in Conns : Disable(t, db)
    \/ \E t \in DOMAIN th : Continue(t)

SpecConc == InitConc /\ [][NextConc]_vars

(* ------------------------------------------------------------------ *)
(* getThreadsCount (Tests/GRDBTests/getThreadsCount.c).  The kernel is  *)
(* the environment: kThreads is the process's live thread count, kLists *)
(* the thread lists it has handed out that are not yet deallocated.     *)
(* gt holds the function's locals, the kernel calls it has made in the  *)
(* current or most recent invocation, and its return value.             *)
(* ------------------------------------------------------------------ *)
ListIds == 1..MaxLists
KernReturns == {KERN_SUCCESS, KERN_INVALID_ARGUMENT, KERN_FAILURE}

\* return threadCount: mach_msg_type_number_t (unsigned, 32 bits) to int.
ToInt32(u) == IF u > INT_MAX THEN (u - INT_MAX) - INT_MAX - 2 ELSE u

\* Mutant: the failure paths return the kernel's code.
FailureReturn_code(g) == [g EXCEPT !.pc = "returned", !.ret = g.kernReturn]

\* return -1;
FailureReturn(g) == [g EXCEPT !.pc = "returned", !.ret = -1]

\* Lines 7-14: the locals are declared (threadList and threadCount hold
\* whatever was on the stack), task_for_pid is called and its result tested.
GT_task_for_pid(rc, junkList, junkCount) ==
    /\ gt.pc \in {"idle", "returned"}
    /\ LET g == [pc |-> "l16", kernReturn |-> rc, task |-> rc = KERN_SUCCESS,
                 threadList |-> junkList, threadCount |-> junkCount,
                 calls |-> << "task_for_pid" >>, ret |-> 0]
       IN  gt' = IF g.kernReturn # KERN_SUCCESS THEN FailureReturn(g) ELSE g
    /\ UNCHANGED <<kThreads, kLists>>
    /\ UNCHANGED shimVars

\* Lines 16-19: task_threads is called and its result tested.  On success the
\* kernel has allocated the list and stored its address and length.
GT_task_threads(e) ==
    /\ gt.pc = "l16"
    /\ LET rc == IF e = KERN_SUCCESS /\ kLists = ListIds THEN KERN_RESOURCE_SHORTAGE ELSE e
           list == CHOOSE i \in ListIds \ kLists : \A j \in ListIds \ kLists : i <= j
           g == [gt EXCEPT !.kernReturn = rc, !.calls = Append(@, "task_threads")]
       IN  IF rc # KERN_SUCCESS
           THEN /\ gt' = FailureReturn(g)
                /\ UNCHANGED kLists
           ELSE /\ gt' = [g EXCEPT !.pc = "l20", !.threadList = list, !.threadCount = kThreads]
                /\ kLists' = kLists \cup {list}
    /\ UNCHANGED kThreads
    /\ UNCHANGED shimVars

\* Mutant: the list is not deallocated.
GT_vm_deallocate_skipped ==
    /\ gt.pc = "l20"
    /\ gt' = [gt EXCEPT !.pc = "l22"]
    /\ UNCHANGED <<kThreads, kLists>>
    /\ UNCHANGED shimVars

\* Line 20: vm_deallocate(mach_task_self(), threadList, ...).
GT_vm_deallocate ==
    /\ gt.pc = "l20"
    /\ gt' = [gt EXCEPT !.pc = "l22", !.calls = Append(@, "vm_deallocate")]
    /\ kLists' = kLists \ {gt.threadList}
    /\ UNCHANGED kThreads
    /\ UNCHANGED shimVars

\* Line 22: return threadCount.
GT_return ==
    /\ gt.pc = "l22"
    /\ gt' = [gt EXCEPT !.pc = "returned", !.ret = ToInt32(gt.threadCount)]
    /\ UNCHANGED <<kThreads, kLists>>
    /\ UNCHANGED shimVars

\* Environment: other threads of the process start and exit.
ThreadStart ==
    /\ kThreads < MaxThreadCount
    /\ kThreads' = kThreads + 1
    /\ UNCHANGED <<kLists, gt>>
    /\ UNCHANGED shimVars

ThreadExit ==
    /\ kThreads > 1
    /\ kThreads' = kThreads - 1
    /\ UNCHANGED <<kLists, gt>>
    /\ UNCHANGED shimVars

InitThreads ==
    /\ build = [header |-> H_Support, snapshot |-> TRUE, version |-> DQS_MIN_VERSION]
    /\ open = {}
    /\ isInit = FALSE
    /\ xLog = NULL
    /\ pLogArg = NULL
    /\ dqs = [c \in Conns |-> [o \in DqsOpts |-> 1]]
    /\ gen = [c \in Conns |-> 0]
    /\ snaps = {}
    /\ th = [t \in {"t1"} |-> IdleThread]
    /\ overlapped = [c \in Conns |-> FALSE]
    /\ nErr = 0
    /\ nInv = 0
    /\ lastInv = [cb |-> NULL, pArg |-> NULL, code |-> 0]
    /\ kThreads \in 1..MaxThreadCount
    /\ kLists = {}
    /\ gt = GtIdle

NextThreads ==
    \/ \E rc \in KernReturns, junkList \in {0} \cup ListIds, junkCount \in 0..MaxThreadCount :
          GT_task_for_pid(rc, junkList, junkCount)
    \/ \E e \in KernReturns : GT_task_threads(e)
    \/ GT_vm_deallocate
    \/ GT_return
    \/ ThreadStart
    \/ ThreadExit

SpecThreads == InitThreads /\ [][NextThreads]_vars

(* ================================================================== *)
(* Claims.                                                              *)
(* ================================================================== *)
Returned(t, fn) == th[t].st = "returned" /\ th[t].fn = fn
DqsOn == [o \in DqsOpts |-> 1]
DqsOff == [o \in DqsOpts |-> 0]
DqsFns == {"enableDoubleQuotedStringLiterals", "disableDoubleQuotedStringLiterals"}

\* C1 as stated: in every build without SQLITE_ENABLE_SNAPSHOT, snapshotGet
\* returns SQLITE_MISUSE for every input and makes no library call.
C1_Original ==
    \A t \in DOMAIN th :
        (~build.snapshot /\ Returned(t, "snapshotGet")) =>
            (th[t].ret = Value(SQLITE_MISUSE) /\ th[t].calls = << >>)

\* C1 (amended): without SQLITE_ENABLE_SNAPSHOT, the snapshot_get of
\* Support/SQLCipher_config.h and of SQLiteCustom/grdb_config.h returns
\* SQLITE_MISUSE for every connection, schema and output slot, makes no library
\* call and leaves the slot alone; the grdb_snapshot_get of Support/grdb_config.h
\* makes exactly one call of sqlite3_snapshot_get and returns its status.
C1_SnapshotGetWithoutSnapshotFlag ==
    \A t \in DOMAIN th :
        (~build.snapshot /\ Returned(t, "snapshotGet")) =>
            IF build.header \in {H_SupportCipher, H_Custom}
            THEN /\ th[t].ret = Value(SQLITE_MISUSE)
                 /\ th[t].calls = << >>
                 /\ th[t].out = NullSnapshot
            ELSE /\ Len(th[t].calls) = 1
                 /\ th[t].calls[1].fn = "sqlite3_snapshot_get"
                 /\ th[t].ret = Value(th[t].calls[1].res)

\* C1 witness: the SQLCipher stub has answered a get of the main schema.
C1_Witness ==
    /\ ~build.snapshot
    /\ build.header = H_SupportCipher
    /\ Returned("t1", "snapshotGet")
    /\ th["t1"].args.schema = "main"
    /\ th["t1"].ret = Value(SQLITE_MISUSE)

\* C2 as stated: in every build without SQLITE_ENABLE_SNAPSHOT, snapshotCompare
\* returns 0 for any two handles and makes no library call.
C2_Original ==
    \A t \in DOMAIN th :
        (~build.snapshot /\ Returned(t, "snapshotCmp")) =>
            (th[t].ret = Value(0) /\ th[t].calls = << >>)

\* C2 (amended): without SQLITE_ENABLE_SNAPSHOT, the snapshot_cmp of
\* Support/SQLCipher_config.h and of SQLiteCustom/grdb_config.h returns 0 for any
\* two handles (null or identical ones included) and makes no library call; the
\* grdb_snapshot_cmp of Support/grdb_config.h makes exactly one call of
\* sqlite3_snapshot_cmp and returns its result.
C2_SnapshotCmpWithoutSnapshotFlag ==
    \A t \in DOMAIN th :
        (~build.snapshot /\ Returned(t, "snapshotCmp")) =>
            IF build.header \in {H_SupportCipher, H_Custom}
            THEN /\ th[t].ret = Value(0)
                 /\ th[t].calls = << >>
            ELSE /\ Len(th[t].calls) = 1
                 /\ th[t].calls[1].fn = "sqlite3_snapshot_cmp"
                 /\ th[t].ret = Value(th[t].calls[1].res)

\* C2 witness: the custom-build stub has compared two different handles.
C2_Witness ==
    /\ ~build.snapshot
    /\ build.header = H_Custom
    /\ Returned("t1", "snapshotCmp")
    /\ th["t1"].args.p1 # th["t1"].args.p2
    /\ th["t1"].ret = Value(0)

\* C3: below version 3029000, every step of every enable / disable call, on
\* any connection, makes no library call, returns at once with nothing
\* reported, and leaves every connection's DDL and DML settings as they were.
C3_BelowThresholdNoOp ==
    [][ build.version < DQS_MIN_VERSION =>
            /\ dqs' = dqs
            /\ \A t \in DOMAIN th :
                  th'[t] # th[t] =>
                      /\ th'[t].st = "returned"
                      /\ th'[t].fn \in DqsFns
                      /\ th'[t].calls = << >>
                      /\ th'[t].ret = Void ]_vars

\* C3 witness: below the threshold, an enable has returned on a connection
\* whose settings are still off.
C3_Witness ==
    /\ build.version < DQS_MIN_VERSION
    /\ Returned("t1", "enableDoubleQuotedStringLiterals")
    /\ dqs[th["t1"].args.db] = DqsOff

\* C4: at or above version 3029000, with calls following one another: once an
\* enable(db) has returned both settings of db are on, once a disable(db) has
\* returned both are off, and a step of a call on db changes the settings of
\* no other connection (so each connection keeps those of its last call).
C4_DqsToggle ==
    [][ build.version >= DQS_MIN_VERSION =>
            \A t \in DOMAIN th :
                /\ (th'[t].st = "returned" /\ th'[t].fn = "enableDoubleQuotedStringLiterals")
                      => dqs'[th'[t].args.db] = DqsOn
                /\ (th'[t].st = "returned" /\ th'[t].fn = "disableDoubleQuotedStringLiterals")
                      => dqs'[th'[t].args.db] = DqsOff
                /\ \A c \in Conns \ {th'[t].args.db} : dqs'[c] = dqs[c] ]_vars

\* C4 witness: a disable has returned on c1, whose settings are off, after an
\* enable had turned those of c2 on.
C4_Witness ==
    /\ build.version >= DQS_MIN_VERSION
    /\ Returned("t1", "disableDoubleQuotedStringLiterals")
    /\ th["t1"].args.db = "c1"
    /\ dqs["c1"] = DqsOff
    /\ dqs["c2"] = DqsOn

Accepted(t) == th[t].calls = << [fn |-> "sqlite3_config", res |-> SQLITE_OK] >>
Refused(t) == th[t].calls = << [fn |-> "sqlite3_config", res |-> SQLITE_MISUSE] >>

C7_Original ==
    \A t \in DOMAIN th :
        (th[t].st = "returned" /\ th[t].fn # "snapshotFree") =>
            \A i \in 1..Len(th[t].calls) : th[t].ret = Value(th[t].calls[i].res)

\* C7 (amended): snapshotGet and snapshotCompare, when they reach the library,
\* make exactly one library call and return its result unmodified (no retry, no
\* recovery, no wrapping); registerErrorLogCallback and enable / disable
\* DoubleQuotedStringLiterals return nothing, so the status returned by
\* sqlite3_config (SQLITE_OK, or SQLITE_MISUSE were the library to refuse the
\* call) and by each sqlite3_db_config is discarded, not surfaced.
C7_PassThrough ==
    \A t \in DOMAIN th :
        th[t].st = "returned" =>
            /\ (th[t].fn \in {"snapshotGet", "snapshotCmp"} /\ th[t].calls # << >>) =>
                  /\ Len(th[t].calls) = 1
                  /\ th[t].ret = Value(th[t].calls[1].res)
            /\ th[t].fn = "registerErrorLogCallback" =>
                  /\ th[t].ret = Void
                  /\ Len(th[t].calls) = 1
                  /\ th[t].calls[1].res \in {SQLITE_OK, SQLITE_MISUSE}
            /\ th[t].fn \in DqsFns =>
                  /\ th[t].ret = Void
                  /\ Len(th[t].calls) \in {0, 2}

\* C7 witness: registerErrorLogCallback(cb1) has made its one sqlite3_config
\* call, which returned SQLITE_OK, and has returned nothing to its caller.
C7_Witness ==
    /\ Returned("t1", "registerErrorLogCallback")
    /\ th["t1"].args.cb = "cb1"
    /\ th["t1"].calls = << [fn |-> "sqlite3_config", res |-> SQLITE_OK] >>
    /\ th["t1"].ret = Void

\* C8 as stated: every path through getThreadsCount, the failure paths
\* included, calls vm_deallocate before it returns.
C8_Original ==
    gt.pc = "returned" => (\E i \in 1..Len(gt.calls) : gt.calls[i] = "vm_deallocate")

\* C8 (amended): getThreadsCount never returns while holding a thread list
\* obtained from the kernel: it calls vm_deallocate exactly on the path where
\* task_threads succeeded, the only one on which a list was obtained; the paths
\* where task_for_pid or task_threads fails return without calling it.
C8_NoListHeldAtReturn ==
    gt.pc \in {"idle", "returned"} =>
        /\ kLists = {}
        /\ gt.pc = "returned" =>
              ((\E i \in 1..Len(gt.calls) : gt.calls[i] = "vm_deallocate")
                  <=> gt.kernReturn = KERN_SUCCESS)

\* C8 witness: task_threads has failed and the function has returned, with no
\* call of vm_deallocate and no list held.
C8_Witness ==
    /\ gt.pc = "returned"
    /\ gt.calls = << "task_for_pid", "task_threads" >>
    /\ gt.kernReturn = KERN_FAILURE
    /\ kLists = {}

\* C9: getThreadsCount returns -1 whenever task_for_pid or task_threads does
\* not return KERN_SUCCESS, task_threads not being called after task_for_pid
\* failed; when both succeed it returns the count the kernel reported, at least 1.
C9_SentinelOrCount ==
    gt.pc = "returned" =>
        /\ gt.calls[1] = "task_for_pid"
        /\ ~gt.task => (gt.ret = -1 /\ gt.calls = << "task_for_pid" >> /\ gt.kernReturn # KERN_SUCCESS)
        /\ (gt.task /\ gt.kernReturn # KERN_SUCCESS) =>
              (gt.ret = -1 /\ gt.calls = << "task_for_pid", "task_threads" >>)
        /\ (gt.task /\ gt.kernReturn = KERN_SUCCESS) =>
              /\ gt.calls = << "task_for_pid", "task_threads", "vm_deallocate" >>
              /\ gt.ret = gt.threadCount
              /\ gt.ret >= 1
              /\ gt.ret <= MaxThreadCount

\* C9 witness: task_for_pid succeeded, task_threads failed, -1 was returned.
C9_Witness ==
    /\ gt.pc = "returned"
    /\ gt.task
    /\ gt.kernReturn = KERN_INVALID_ARGUMENT
    /\ gt.ret = -1

\* C10 as stated: at or above version 3029000, whenever no enable / disable
\* call is in progress on a connection that has received one, its DDL and DML
\* settings are equal, for every interleaving of calls from two threads.
C10_Original ==
    \A c \in open :
        (/\ build.version >= DQS_MIN_VERSION
         /\ InProgress(c) = {}
         /\ \E t \in DOMAIN th : th[t].st = "returned" /\ th[t].args.db = c)
            => dqs[c]["SQLITE_DBCONFIG_DQS_DDL"] = dqs[c]["SQLITE_DBCONFIG_DQS_DML"]

\* C10 (amended): at or above version 3029000, whenever no enable / disable
\* call is in progress on a connection that has received one, its DDL and DML
\* settings are equal provided the latest call on it ran without another call
\* on the same connection in progress; when two calls overlap, the settings
\* can be left different.
C10_EqualUnlessOverlapped ==
    \A c \in open :
        (/\ build.version >= DQS_MIN_VERSION
         /\ InProgress(c) = {}
         /\ ~overlapped[c]
         /\ \E t \in DOMAIN th : th[t].st = "returned" /\ th[t].args.db = c)
            => dqs[c]["SQLITE_DBCONFIG_DQS_DDL"] = dqs[c]["SQLITE_DBCONFIG_DQS_DML"]

\* C10 witness: both threads have called, one after the other, the later call
\* being t2's disable; both settings are off.
C10_Witness ==
    /\ build.version >= DQS_MIN_VERSION
    /\ Returned("t1", "enableDoubleQuotedStringLiterals")
    /\ Returned("t2", "disableDoubleQuotedStringLiterals")
    /\ ~overlapped["c1"]
    /\ dqs["c1"] = DqsOff
====
